---- MODULE Spec2Model ----
(***************************************************************************)
(* Model of the P2pClient port-forwarding facade of go-ipfs-p2p            *)
(* (src/unnamed/part_001, lines 172-536) together with the parts of the    *)
(* go-ipfs v0.10.0 p2p package it drives (pinned by the go.mod at          *)
(* src/unnamed/part_001:29): the two Listeners registries, Register,       *)
(* Close, ForwardLocal and ForwardRemote.                                  *)
(*                                                                         *)
(* Every goroutine that calls the client is a thread with a program        *)
(* counter named after the source line it is about to execute.  A step is  *)
(* the code between two acquisitions of a registry lock.  A panic that no  *)
(* deferred recover catches ends the whole process (crashed).              *)
(***************************************************************************)
EXTENDS Bags, FiniteSets, Integers, Sequences, TLC

\* ------------------------------------------------------------------ bounds
MaxEphemeral == 1          \* ports the kernel can hand out for port 0
MaxStreams == 1            \* streams open at a time

\* one caller that passes every argument, two callers that run concurrently
Main == "main"
Threads == {"t1", "t2"}
Callers == {Main} \cup Threads
None == "none"

Protos == {"/x/ssh", "/x/web"}
Ports == {0, 8000, 70000}
PeerIds == {"", "bad", "QmA", "QmB"}
\* the arguments a caller passes: the concurrent callers the colliding ones
ProtosOf(t) == IF t = Main THEN Protos ELSE {"/x/ssh"}
PortsOf(t) == IF t = Main THEN Ports ELSE {0, 8000}
PeerIdsOf(t) == IF t = Main THEN PeerIds ELSE {"bad", "QmA"}
RelayId == "QmRelay"
SelfId == "QmSelf"
ValidPeerIds == {"QmA", "QmB", RelayId, SelfId}
EphemeralPorts == {40000 + i : i \in 0..(MaxEphemeral - 1)}
\* rand.Intn(9999) + 30000: the least and the greatest port it can give
RandomPorts == {30000, 39998}
RandomPeerIds == {"QmA", "QmB"}
KnownPorts == Ports \cup EphemeralPorts \cup RandomPorts \cup {80}

\* ------------------------------------------------------------ multiaddrs
\* A parsed multiaddr; NilAddr is the nil Multiaddr interface value.
Tcp(n) == [kind |-> "tcp", port |-> n, id |-> ""]
P2pAddr(i) == [kind |-> "p2p", port |-> 0, id |-> i]
NilAddr == [kind |-> "nil", port |-> 0, id |-> ""]

\* fmt.Sprintf("/ip4/127.0.0.1/tcp/%d", port): the text, split at "/"
ListenOpt(port) == <<"ip4", "127.0.0.1", "tcp", ToString(port)>>
\* fmt.Sprintf("/p2p/%s", peerId)
TargetOpt(peerId) == <<"p2p", peerId>>
\* fmt.Sprintf("/p2p/%s/p2p-circuit/p2p/%s", circuitPeer, targetPeer)
CircuitOpt(circuitPeer, targetPeer) ==
  <<"p2p", circuitPeer, "p2p-circuit", "p2p", targetPeer>>

\* the texts callers pass to Listen and Close
Garbage == <<"garbage">>
ListenTexts == {ListenOpt(80), Garbage}
TargetTexts == {ListenOpt(80), TargetOpt("QmA"), TargetOpt("QmB"), Garbage}
ListenTextsOf(t) == ListenTexts
TargetTextsOf(t) == IF t = Main THEN TargetTexts ELSE {ListenOpt(80), TargetOpt("QmA")}

ValidPortText(s) == \E n \in KnownPorts : ToString(n) = s /\ n >= 0 /\ n <= 65535
PortOfText(s) == CHOOSE n \in KnownPorts : ToString(n) = s

\* ma.NewMultiaddr: (nil, err) for a text that is no multiaddr
NewMultiaddr(text) ==
  IF Len(text) = 4 /\ text[1] = "ip4" /\ text[2] = "127.0.0.1" /\ text[3] = "tcp"
     /\ ValidPortText(text[4])
  THEN [err |-> FALSE, addr |-> Tcp(PortOfText(text[4]))]
  ELSE IF Len(text) = 2 /\ text[1] = "p2p" /\ text[2] \in ValidPeerIds
  THEN [err |-> FALSE, addr |-> P2pAddr(text[2])]
  ELSE IF Len(text) = 5 /\ text[1] = "p2p" /\ text[2] \in ValidPeerIds
          /\ text[3] = "p2p-circuit" /\ text[4] = "p2p" /\ text[5] \in ValidPeerIds
  THEN [err |-> FALSE, addr |-> [kind |-> "circuit", port |-> 0, id |-> text[5]]]
  ELSE [err |-> TRUE, addr |-> NilAddr]

\* Multiaddr.String() of a non-nil multiaddr
String(a) ==
  IF a.kind = "tcp" THEN <<"ip4", "127.0.0.1", "tcp", ToString(a.port)>>
  ELSE <<"p2p", a.id>>

\* parseIpfsAddr("/p2p/<id>"): fails exactly when the text is no multiaddr
parseIpfsAddr(text) == NewMultiaddr(text)


\* ------------------------------------------------------------- listeners
\* ipfsp2p.localListener: ListenAddress is the bound address, TargetAddress
\* is "/p2p/" + peer
localListener(proto, laddr, peer) ==
  [kind |-> "local", proto |-> proto, listen |-> laddr, target |-> P2pAddr(peer)]
\* ipfsp2p.remoteListener: ListenAddress is "/p2p/" + own id, TargetAddress
\* is the addr it was given, nil included
remoteListener(proto, addr) ==
  [kind |-> "remote", proto |-> proto, listen |-> P2pAddr(SelfId), target |-> addr]

\* Listener.key(): the listen address for a local listener, the protocol
\* for a remote one
key(l) == IF l.kind = "local" THEN String(l.listen) ELSE <<l.proto>>

\* Register without the lookup of the key
RegisterUnchecked(reg, l) == [err |-> "nil", reg |-> reg (+) SetToBag({l})]

\* Listeners.Register, inside the registry lock: one listener per key
Register(reg, l) ==
  IF \E x \in BagToSet(reg) : key(x) = key(l)
  THEN [err |-> "listener already registered", reg |-> reg]
  ELSE [err |-> "nil", reg |-> reg (+) SetToBag({l})]

\* Listeners.Close(matchFunc), inside the registry lock: todo is the set of
\* listeners matchFunc accepts; they are deleted and counted
ListenersClose(reg, todo) ==
  [done |-> BagCardinality([e \in (DOMAIN reg) \cap todo |-> reg[e]]),
   reg |-> [e \in (DOMAIN reg) \ todo |-> reg[e]]]

\* the match function of Close: targetAddress.Equal(listener.TargetAddress())
CloseMatch(targetAddress, l) == targetAddress = l.target
\* Equal dereferences its argument: a nil TargetAddress panics
EqualPanics(reg) == \E l \in BagToSet(reg) : l.target = NilAddr

\* the match function of the duplicate lookup in Forward
ForwardMatch(protoId, listen, target, l) ==
  /\ l.proto = protoId
  /\ String(l.listen) = String(listen)
  /\ String(l.target) = String(target)

\* a filterListener that compares the whole listener with the arguments
filterListenerNoMatch(reg, protoId, listen, target) ==
  {l \in BagToSet(reg) : l = [proto |-> protoId, listen |-> listen, target |-> target]}

\* P2pClient.filterListener
filterListener(reg, protoId, listen, target) ==
  {l \in BagToSet(reg) : ForwardMatch(protoId, listen, target, l)}

\* one entry of P2PLsOutput
P2PListenerInfoOutput(l) ==
  [Protocol |-> l.proto, ListenAddress |-> String(l.listen),
   TargetAddress |-> String(l.target)]

\* every order in which ranging over the map can visit the listeners
RangeOrders(reg) ==
  {s \in [1..BagCardinality(reg) -> BagToSet(reg)] :
     \A e \in BagToSet(reg) :
        Cardinality({i \in 1..BagCardinality(reg) : s[i] = e}) = CopiesIn(e, reg)}

AppendOutput(out, order) ==
  out \o [i \in 1..Len(order) |-> P2PListenerInfoOutput(order[i])]

\* ------------------------------------------------------------------ state
VARIABLES
  ListenersLocal,   \* c.P2P.ListenersLocal.Listeners (local-bind forwards)
  ListenersP2P,     \* c.P2P.ListenersP2P.Listeners (overlay-bind forwards)
  lockLocal,        \* holder of the ListenersLocal mutex
  lockP2P,          \* holder of the ListenersP2P mutex
  nilled,           \* c.P2P = nil and c.Host = nil (after Destroy)
  Peers,            \* c.Peers, the configured relay candidates
  pc,               \* per thread: the source line it is about to run
  frame,            \* per thread: arguments, locals and result of its call
  crashed,          \* an unrecovered panic ended the process
  Streams           \* c.P2P.Streams.Streams, the ids of the open streams

vars == <<ListenersLocal, ListenersP2P, lockLocal, lockP2P, nilled, Peers,
          pc, frame, crashed, Streams>>

EmptyFrame ==
  [op |-> "none", proto |-> "", port |-> 0, peerId |-> "", text |-> <<>>,
   before |-> "none", repeat |-> FALSE,
   armed |-> FALSE, deferred |-> FALSE, dup |-> FALSE, laddr |-> NilAddr, done |-> 0, out |-> <<>>, ret |-> "idle",
   health |-> "none", probe |-> "none", busy |-> FALSE, trail |-> <<>>,
   outer |-> FALSE, arg |-> "", held |-> "none", prev |-> "", ip |-> "", portText |-> ""]

\* NewP2pClient: empty registries, the relay candidates as configured
Init ==
  /\ ListenersLocal = EmptyBag
  /\ ListenersP2P = EmptyBag
  /\ lockLocal = None
  /\ lockP2P = None
  /\ nilled = FALSE
  /\ Peers \in {{}, {RelayId}}
  /\ pc = [t \in Callers |-> "idle"]
  /\ frame = [t \in Callers |-> EmptyFrame]
  /\ crashed = FALSE
  /\ Streams = {}

Running(t, line) == ~crashed /\ pc[t] = line

\* what is left of a frame once its call has returned ret: the operation,
\* its arguments, its results, and which way Forward went
Returned(f, ret) ==
  [f EXCEPT !.ret = ret, !.deferred = FALSE, !.laddr = NilAddr]

\* the call returns ret, to the caller's thread or, for the Forward that
\* ForwardWithRandomPort calls, to line 498
Return(t, ret, f) ==
  /\ pc' = [pc EXCEPT ![t] = IF f.outer THEN "Random498" ELSE "idle"]
  /\ frame' = [frame EXCEPT ![t] = Returned(f, ret)]

Goto(t, line, f) ==
  /\ pc' = [pc EXCEPT ![t] = line]
  /\ frame' = [frame EXCEPT ![t] = f]

\* A panic in thread t.  Inside Forward after a failed health check the
\* deferred recover (lines 260-264) catches it and Forward returns the zero
\* error, nil, after the deferred Unlock of line 291 when that was reached.
\* Anywhere else the process dies.
Panic(t) ==
  IF frame[t].armed
  THEN /\ Return(t, "nil", frame[t])
       /\ lockP2P' = IF frame[t].deferred THEN None ELSE lockP2P
       /\ crashed' = crashed
  ELSE /\ pc' = [pc EXCEPT ![t] = "crashed"]
       /\ frame' = [frame EXCEPT ![t] = Returned(@, "panic")]
       /\ lockP2P' = lockP2P
       /\ crashed' = TRUE

\* ------------------------------------------------------------------- List
CallList(t) ==
  /\ Running(t, "idle")
  /\ Goto(t, "List212", [EmptyFrame EXCEPT !.op = "List", !.ret = "running"])
  /\ UNCHANGED <<ListenersLocal, ListenersP2P, lockLocal, lockP2P, nilled, Peers, Streams, crashed>>

\* line 212: c.P2P.ListenersLocal.Lock()
List212(t) ==
  /\ Running(t, "List212")
  /\ IF nilled
     THEN Panic(t) /\ UNCHANGED lockLocal
     ELSE /\ lockLocal = None
          /\ lockLocal' = t
          /\ Goto(t, "List213", frame[t])
          /\ UNCHANGED <<lockP2P, crashed>>
  /\ UNCHANGED <<ListenersLocal, ListenersP2P, nilled, Peers, Streams>>

\* a List that keeps the local-bind lock while it goes on
List213KeepLock(t) ==
  /\ Running(t, "List213")
  /\ \E order \in RangeOrders(ListenersLocal) :
        Goto(t, "List222", [frame[t] EXCEPT !.out = AppendOutput(@, order)])
  /\ UNCHANGED <<ListenersLocal, ListenersP2P, lockLocal, lockP2P, nilled, Peers, Streams, crashed>>

\* lines 213-220: range over the local-bind listeners, Unlock
List213(t) ==
  /\ Running(t, "List213")
  /\ \E order \in RangeOrders(ListenersLocal) :
        Goto(t, "List222", [frame[t] EXCEPT !.out = AppendOutput(@, order)])
  /\ lockLocal' = None
  /\ UNCHANGED <<ListenersLocal, ListenersP2P, lockP2P, nilled, Peers, Streams, crashed>>

\* line 222: c.P2P.ListenersP2P.Lock()
List222(t) ==
  /\ Running(t, "List222")
  /\ IF nilled
     THEN Panic(t)
     ELSE /\ lockP2P = None
          /\ lockP2P' = t
          /\ Goto(t, "List223", frame[t])
          /\ UNCHANGED crashed
  /\ UNCHANGED <<ListenersLocal, ListenersP2P, lockLocal, nilled, Peers, Streams>>

\* lines 223-232: range over the overlay-bind listeners, Unlock, return.
\* listener.TargetAddress().String() on a nil TargetAddress panics.
List223(t) ==
  /\ Running(t, "List223")
  /\ IF EqualPanics(ListenersP2P)
     THEN Panic(t)
     ELSE /\ \E order \in RangeOrders(ListenersP2P) :
                Return(t, "nil", [frame[t] EXCEPT !.out = AppendOutput(@, order)])
          /\ lockP2P' = None
          /\ UNCHANGED crashed
  /\ UNCHANGED <<ListenersLocal, ListenersP2P, lockLocal, nilled, Peers, Streams>>

\* ----------------------------------------------------------------- Listen
\* the listener Listen hands to Register: the parsed target, nil when the
\* text did not parse
ListenListener(proto, targetOpt) ==
  remoteListener(proto, NewMultiaddr(targetOpt).addr)

\* what the overlay-bind registry holds under the protocol when a listen
\* call begins: nothing, the very forward asked for, or another one
BeforeListen(proto, targetOpt) ==
  IF ~NewMultiaddr(targetOpt).err /\ BagIn(ListenListener(proto, targetOpt), ListenersP2P)
  THEN "same"
  ELSE IF \E l \in BagToSet(ListenersP2P) : l.proto = proto THEN "other"
  ELSE "none"

CallListen(t) ==
  /\ Running(t, "idle")
  /\ \E proto \in ProtosOf(t), targetOpt \in ListenTextsOf(t) :
        Goto(t, "Listen242",
             [EmptyFrame EXCEPT !.op = "Listen", !.proto = proto, !.text = targetOpt,
                !.ret = "running",
                !.before = BeforeListen(proto, targetOpt),
                !.repeat = /\ frame[t].op = "Listen" /\ frame[t].ret = "nil"
                           /\ frame[t].proto = proto /\ frame[t].text = targetOpt])
  /\ UNCHANGED <<ListenersLocal, ListenersP2P, lockLocal, lockP2P, nilled, Peers, Streams, crashed>>

\* lines 240-246: the target is parsed, a parse error is only printed;
\* ForwardRemote builds the listener and Register takes the registry lock
Listen242(t) ==
  /\ Running(t, "Listen242")
  /\ IF nilled
     THEN Panic(t)
     ELSE /\ lockP2P = None
          /\ lockP2P' = t
          /\ Goto(t, "Listen246", frame[t])
          /\ UNCHANGED crashed
  /\ UNCHANGED <<ListenersLocal, ListenersP2P, lockLocal, nilled, Peers, Streams>>

\* lines 246-248: Register inside the lock, Unlock, return its error
Listen246(t) ==
  /\ Running(t, "Listen246")
  /\ LET r == Register(ListenersP2P, ListenListener(frame[t].proto, frame[t].text))
     IN  /\ ListenersP2P' = r.reg
         /\ Return(t, r.err, frame[t])
  /\ lockP2P' = None
  /\ UNCHANGED <<ListenersLocal, lockLocal, nilled, Peers, Streams, crashed>>

\* ---------------------------------------------------------------- Forward
\* the local-bind forwards with the triple forward(protoOpt, port, peerId)
\* asks for
Requested(protoOpt, port, peerId) ==
  IF NewMultiaddr(ListenOpt(port)).err \/ NewMultiaddr(TargetOpt(peerId)).err
  THEN {}
  ELSE {l \in BagToSet(ListenersLocal) :
          /\ l.proto = protoOpt
          /\ String(l.listen) = ListenOpt(port)
          /\ String(l.target) = TargetOpt(peerId)}

\* what the local-bind registry holds on the listen address when a forward
\* call begins: nothing, the very forward asked for, or another one
BeforeForward(protoOpt, port, peerId) ==
  IF Requested(protoOpt, port, peerId) # {} THEN "same"
  ELSE IF \E l \in BagToSet(ListenersLocal) : String(l.listen) = ListenOpt(port)
  THEN "other"
  ELSE "none"

CallForward(t) ==
  /\ Running(t, "idle")
  /\ \E protoOpt \in ProtosOf(t), port \in PortsOf(t), peerId \in PeerIdsOf(t) :
        Goto(t, "Forward254",
             [EmptyFrame EXCEPT !.op = "Forward", !.proto = protoOpt, !.port = port,
                !.peerId = peerId, !.ret = "running",
                !.before = BeforeForward(protoOpt, port, peerId),
                !.repeat = /\ frame[t].op = "Forward" /\ frame[t].ret = "nil"
                           /\ frame[t].proto = protoOpt /\ frame[t].port = port
                           /\ frame[t].peerId = peerId])
  /\ UNCHANGED <<ListenersLocal, ListenersP2P, lockLocal, lockP2P, nilled, Peers, Streams, crashed>>

\* the outcomes of CheckForwardHealth (lines 317-333): an error when the
\* peer address does not parse, a panic on a nil Host, otherwise whatever
\* NewStream reports
CheckForwardHealth(peerId) ==
  IF parseIpfsAddr(TargetOpt(peerId)).err THEN {"fail"}
  ELSE IF nilled THEN {"panic"}
  ELSE {"ok", "fail"}

\* a check for a blank instead of an empty peer id
EmptyPeerIDBlank(peerId) == peerId = " "

\* line 254
EmptyPeerID(peerId) == peerId = ""

\* the probe stream when CheckForwardHealth returns, kept open
ProbeStreamKept(h) == IF h = "ok" THEN "open" ELSE "none"

\* lines 326-331: the probe stream when CheckForwardHealth returns: never
\* opened when NewStream failed, closed by line 330 when it opened
ProbeStream(h) == IF h = "ok" THEN "closed" ELSE "none"

\* a fallback whatever the health check returned
NeedsFallbackAlways(h) == TRUE

\* line 258: the fallback block is entered on any error of the health check
NeedsFallback(h) == h # "ok"

\* lines 254-258: the peer id check, then the health check
Forward254(t) ==
  /\ Running(t, "Forward254")
  /\ IF EmptyPeerID(frame[t].peerId)
     THEN /\ Return(t, "peer id cannot be empty",
                    [frame[t] EXCEPT !.trail = <<"validate">>])
          /\ UNCHANGED <<lockP2P, crashed>>
     ELSE \E h \in CheckForwardHealth(frame[t].peerId) :
            LET f == [frame[t] EXCEPT !.health = h, !.probe = ProbeStream(h),
                                      !.trail = <<"validate", "health">>]
            IN  IF h = "panic" THEN Panic(t)
                ELSE IF ~NeedsFallback(h)
                THEN /\ Goto(t, "Forward278", f)
                     /\ UNCHANGED <<lockP2P, crashed>>
                ELSE /\ Goto(t, "Forward267", [f EXCEPT !.armed = TRUE])
                     /\ UNCHANGED <<lockP2P, crashed>>
  /\ UNCHANGED <<ListenersLocal, ListenersP2P, lockLocal, nilled, Peers, Streams>>

\* ConnectCircuit up to its call of Connect (lines 346-352): StringCast
\* panics on a text that is no multiaddr, Connect on a nil Host panics,
\* otherwise the call of Connect is made
ConnectCircuit(circuitPeer, targetPeer) ==
  IF NewMultiaddr(CircuitOpt(circuitPeer, targetPeer)).err THEN "panic"
  ELSE IF nilled THEN "panic"
  ELSE "connect"

\* what c.Host.Connect(context.Background(), *pi) returns once the overlay
\* answers (lines 352-356)
Connect == {"ok", "fail"}

\* lines 260-272: the fallback, with the recover deferred, up to the call of
\* Connect
Forward267(t) ==
  /\ Running(t, "Forward267")
  /\ LET f == [frame[t] EXCEPT !.trail = Append(@, "fallback")]
     IN  IF Peers = {}
         THEN /\ Return(t, "not enough bootstrap peers", f)
              /\ UNCHANGED <<lockP2P, crashed>>
         ELSE \E circuitPeerId \in Peers :
                IF ConnectCircuit(circuitPeerId, frame[t].peerId) = "panic"
                THEN Panic(t)
                ELSE /\ Goto(t, "Forward352", [f EXCEPT !.trail = Append(@, "connect")])
                     /\ UNCHANGED <<lockP2P, crashed>>
  /\ UNCHANGED <<ListenersLocal, ListenersP2P, lockLocal, nilled, Peers, Streams>>

\* lines 352-356, 273-275: Connect, called without a deadline, returns when
\* the overlay answers; its error is returned
Forward352(t) ==
  /\ Running(t, "Forward352")
  /\ \E c \in Connect :
        IF c = "fail"
        THEN Return(t, "connect failed", frame[t])
        ELSE Goto(t, "Forward278", frame[t])
  /\ UNCHANGED <<ListenersLocal, ListenersP2P, lockLocal, lockP2P, nilled, Peers, Streams, crashed>>

\* a Forward that goes on to its lookup without the overlay-bind lock
Forward278NoLock(t) ==
  /\ Running(t, "Forward278")
  /\ IF NewMultiaddr(ListenOpt(frame[t].port)).err
     THEN /\ Return(t, "failed to parse multiaddr", frame[t])
          /\ UNCHANGED <<lockP2P, crashed>>
     ELSE IF nilled
     THEN Panic(t)
     ELSE /\ Goto(t, "Forward293", [frame[t] EXCEPT !.trail = Append(@, "resolve")])
          /\ UNCHANGED <<lockP2P, crashed>>
  /\ UNCHANGED <<ListenersLocal, ListenersP2P, lockLocal, nilled, Peers, Streams>>

\* lines 278-291: the listen address is built and parsed, the target is
\* resolved (its error is dropped), the overlay-bind lock is taken and its
\* Unlock deferred
Forward278(t) ==
  /\ Running(t, "Forward278")
  /\ IF NewMultiaddr(ListenOpt(frame[t].port)).err
     THEN /\ Return(t, "failed to parse multiaddr", frame[t])
          /\ UNCHANGED <<lockP2P, crashed>>
     ELSE IF nilled
     THEN Panic(t)
     ELSE /\ lockP2P = None
          /\ lockP2P' = t
          /\ Goto(t, "Forward293", [frame[t] EXCEPT !.deferred = TRUE,
                                                    !.trail = Append(@, "resolve")])
          /\ UNCHANGED crashed
  /\ UNCHANGED <<ListenersLocal, ListenersP2P, lockLocal, nilled, Peers, Streams>>

\* the callers inside a write of the local-bind registry, under its lock
LocalWriters ==
  {u \in Callers : lockLocal = u /\ pc[u] \in {"Forward402", "Close373", "Destroy389b"}}

\* lines 293-301: the duplicate lookup, on the local-bind listeners, holding
\* the overlay-bind lock.  A lookup while another caller writes that registry
\* is a read of a map being written, which the runtime may end the process
\* for; no recover catches that.
Forward293(t) ==
  /\ Running(t, "Forward293")
  /\ IF nilled
     THEN Panic(t)
     ELSE \/ LET listen == NewMultiaddr(ListenOpt(frame[t].port)).addr
                 target == NewMultiaddr(TargetOpt(frame[t].peerId)).addr
                 listeners == filterListener(ListenersLocal, frame[t].proto, listen, target)
             IN  IF listeners # {}
                 THEN /\ Return(t, "nil", [frame[t] EXCEPT !.dup = TRUE,
                                                           !.trail = Append(@, "lookup")])
                      /\ lockP2P' = None
                      /\ UNCHANGED crashed
                 ELSE /\ Goto(t, "Forward302",
                              [frame[t] EXCEPT !.trail = Append(@, "lookup")])
                      /\ UNCHANGED <<lockP2P, crashed>>
          \/ /\ LocalWriters \ {t} # {}
             /\ crashed' = TRUE
             /\ pc' = [pc EXCEPT ![t] = "crashed"]
             /\ frame' = [frame EXCEPT ![t] = Returned(@, "fatal")]
             /\ UNCHANGED lockP2P
  /\ UNCHANGED <<ListenersLocal, ListenersP2P, lockLocal, nilled, Peers, Streams>>

\* the ports some socket of this process is bound to
BoundPorts ==
  {l.listen.port : l \in BagToSet(ListenersLocal)}
    \cup {frame[u].laddr.port : u \in {v \in Callers : pc[v] \in {"Forward401", "Forward402"}}}

\* manet.Listen(bindAddr): the addresses the bind can produce; port 0 asks
\* the kernel for a free one
Bind(port) ==
  IF port = 0 THEN {Tcp(n) : n \in EphemeralPorts \ BoundPorts}
  ELSE {Tcp(n) : n \in {port} \ BoundPorts}

\* lines 302, 397-401: forwardLocal adds the peer's addresses to the
\* peerstore, ForwardLocal binds the socket
Forward302(t) ==
  /\ Running(t, "Forward302")
  /\ IF nilled \/ parseIpfsAddr(TargetOpt(frame[t].peerId)).err
     THEN Panic(t)
     ELSE \/ /\ Return(t, "bind failed",
                       [frame[t] EXCEPT !.trail = Append(@, "create"),
                                        !.busy = (Bind(frame[t].port) = {})])
             /\ lockP2P' = None
             /\ UNCHANGED crashed
          \/ /\ \E laddr \in Bind(frame[t].port) :
                   Goto(t, "Forward401", [frame[t] EXCEPT !.laddr = laddr,
                                                         !.trail = Append(@, "create")])
             /\ UNCHANGED <<lockP2P, crashed>>
  /\ UNCHANGED <<ListenersLocal, ListenersP2P, lockLocal, nilled, Peers, Streams>>

\* ForwardLocal: p2p.ListenersLocal.Register takes the local-bind lock
Forward401(t) ==
  /\ Running(t, "Forward401")
  /\ lockLocal = None
  /\ lockLocal' = t
  /\ Goto(t, "Forward402", frame[t])
  /\ UNCHANGED <<ListenersLocal, ListenersP2P, lockP2P, nilled, Peers, Streams, crashed>>

\* Register inside the lock, Unlock; lines 303-313 and the deferred Unlock
Forward402(t) ==
  /\ Running(t, "Forward402")
  /\ LET r == Register(ListenersLocal,
                       localListener(frame[t].proto, frame[t].laddr, frame[t].peerId))
     IN  /\ ListenersLocal' = r.reg
         /\ Return(t, r.err, frame[t])
  /\ lockLocal' = None
  /\ lockP2P' = None
  /\ UNCHANGED <<ListenersP2P, nilled, Peers, Streams, crashed>>

\* ------------------------------------------------------------------ Close
CallClose(t) ==
  /\ Running(t, "idle")
  /\ \E target \in TargetTextsOf(t) :
        Goto(t, "Close361",
             [EmptyFrame EXCEPT !.op = "Close", !.text = target, !.ret = "running",
                !.repeat = /\ frame[t].op = "Close" /\ frame[t].ret = "nil"
                           /\ frame[t].text = target])
  /\ UNCHANGED <<ListenersLocal, ListenersP2P, lockLocal, lockP2P, nilled, Peers, Streams, crashed>>

\* lines 361-373: parse the target; ListenersLocal.Close takes the lock
Close361(t) ==
  /\ Running(t, "Close361")
  /\ IF NewMultiaddr(frame[t].text).err
     THEN /\ Return(t, "failed to parse multiaddr", frame[t])
          /\ UNCHANGED <<lockLocal, lockP2P, crashed>>
     ELSE IF nilled
     THEN Panic(t) /\ UNCHANGED lockLocal
     ELSE /\ lockLocal = None
          /\ lockLocal' = t
          /\ Goto(t, "Close373", frame[t])
          /\ UNCHANGED <<lockP2P, crashed>>
  /\ UNCHANGED <<ListenersLocal, ListenersP2P, nilled, Peers, Streams>>

\* the listeners of a registry the match function of Close accepts
CloseTodo(reg, target) ==
  {l \in BagToSet(reg) : CloseMatch(NewMultiaddr(target).addr, l)}

\* line 373: delete the matching local-bind listeners inside the lock
Close373(t) ==
  /\ Running(t, "Close373")
  /\ LET r == ListenersClose(ListenersLocal, CloseTodo(ListenersLocal, frame[t].text))
     IN  /\ ListenersLocal' = r.reg
         /\ Goto(t, "Close374", [frame[t] EXCEPT !.done = r.done])
  /\ lockLocal' = None
  /\ UNCHANGED <<ListenersP2P, lockP2P, nilled, Peers, Streams, crashed>>

\* line 374: ListenersP2P.Close takes the lock
Close374(t) ==
  /\ Running(t, "Close374")
  /\ IF nilled
     THEN Panic(t)
     ELSE /\ lockP2P = None
          /\ lockP2P' = t
          /\ Goto(t, "Close375", frame[t])
          /\ UNCHANGED crashed
  /\ UNCHANGED <<ListenersLocal, ListenersP2P, lockLocal, nilled, Peers, Streams>>

\* lines 374-376: delete the matching overlay-bind listeners inside the
\* lock, return the count; the match panics on a nil TargetAddress
Close375(t) ==
  /\ Running(t, "Close375")
  /\ IF EqualPanics(ListenersP2P)
     THEN Panic(t) /\ UNCHANGED ListenersP2P
     ELSE LET r == ListenersClose(ListenersP2P, CloseTodo(ListenersP2P, frame[t].text))
          IN  /\ ListenersP2P' = r.reg
              /\ Return(t, "nil", [frame[t] EXCEPT !.done = @ + r.done])
              /\ lockP2P' = None
              /\ UNCHANGED crashed
  /\ UNCHANGED <<ListenersLocal, lockLocal, nilled, Peers, Streams>>

\* ---------------------------------------------------------------- Destroy
CallDestroy(t) ==
  /\ Running(t, "idle")
  /\ Goto(t, "Destroy382", [EmptyFrame EXCEPT !.op = "Destroy", !.ret = "running"])
  /\ UNCHANGED <<ListenersLocal, ListenersP2P, lockLocal, lockP2P, nilled, Peers, Streams, crashed>>

\* lines 382-388: the range over the streams, outside the lock of the stream
\* registry, closes every stream it visits; a stream that deregisters itself
\* meanwhile is a write to the map being ranged over, which the runtime may
\* end the process for.  Then ListenersP2P.Close takes the lock.
Destroy382(t) ==
  /\ Running(t, "Destroy382")
  /\ IF nilled
     THEN Panic(t) /\ UNCHANGED Streams
     ELSE \/ /\ lockP2P = None
             /\ lockP2P' = t
             /\ Streams' = {}
             /\ Goto(t, "Destroy388", frame[t])
             /\ UNCHANGED crashed
          \/ /\ Streams # {}
             /\ crashed' = TRUE
             /\ pc' = [pc EXCEPT ![t] = "crashed"]
             /\ frame' = [frame EXCEPT ![t] = Returned(@, "fatal")]
             /\ UNCHANGED <<lockP2P, Streams>>
  /\ UNCHANGED <<ListenersLocal, ListenersP2P, lockLocal, nilled, Peers>>

\* line 388: every overlay-bind listener is deleted inside the lock
Destroy388(t) ==
  /\ Running(t, "Destroy388")
  /\ ListenersP2P' = ListenersClose(ListenersP2P, BagToSet(ListenersP2P)).reg
  /\ lockP2P' = None
  /\ Goto(t, "Destroy389", frame[t])
  /\ UNCHANGED <<ListenersLocal, lockLocal, nilled, Peers, Streams, crashed>>

\* line 389: ListenersLocal.Close takes the lock
Destroy389(t) ==
  /\ Running(t, "Destroy389")
  /\ IF nilled
     THEN Panic(t) /\ UNCHANGED lockLocal
     ELSE /\ lockLocal = None
          /\ lockLocal' = t
          /\ Goto(t, "Destroy389b", frame[t])
          /\ UNCHANGED <<lockP2P, crashed>>
  /\ UNCHANGED <<ListenersLocal, ListenersP2P, nilled, Peers, Streams>>

\* line 389: every local-bind listener is deleted inside the lock
Destroy389b(t) ==
  /\ Running(t, "Destroy389b")
  /\ ListenersLocal' = ListenersClose(ListenersLocal, BagToSet(ListenersLocal)).reg
  /\ lockLocal' = None
  /\ Goto(t, "Destroy390", frame[t])
  /\ UNCHANGED <<ListenersP2P, lockP2P, nilled, Peers, Streams, crashed>>

\* lines 390-393: the host is closed, c.P2P and c.Host are cleared
Destroy390(t) ==
  /\ Running(t, "Destroy390")
  /\ IF nilled
     THEN Panic(t) /\ UNCHANGED nilled
     ELSE /\ nilled' = TRUE
          /\ Return(t, "nil", frame[t])
          /\ UNCHANGED <<lockP2P, crashed>>
  /\ UNCHANGED <<ListenersLocal, ListenersP2P, lockLocal, Peers, Streams>>

\* --------------------------------------------------- ForwardWithRandomPort
\* what the registries hold for the peer when the call begins
BeforeRandom(peerId) ==
  IF \E l \in BagToSet(ListenersLocal) : l.target = P2pAddr(peerId)
  THEN "same" ELSE "none"

CallForwardWithRandomPort(t) ==
  /\ Running(t, "idle")
  /\ \E peerId \in RandomPeerIds :
        Goto(t, "ListListen510",
             [EmptyFrame EXCEPT !.op = "ForwardWithRandomPort", !.arg = peerId,
                !.ret = "running",
                !.before = BeforeRandom(peerId),
                !.prev = IF frame[t].op = "ForwardWithRandomPort" /\ frame[t].arg = peerId
                         THEN frame[t].portText ELSE ""])
  /\ UNCHANGED <<ListenersLocal, ListenersP2P, lockLocal, lockP2P, nilled, Peers, Streams, crashed>>

\* line 510: s.P2P.ListenersLocal.Lock()
ListListen510(t) ==
  /\ Running(t, "ListListen510")
  /\ IF nilled
     THEN Panic(t) /\ UNCHANGED lockLocal
     ELSE /\ lockLocal = None
          /\ lockLocal' = t
          /\ Goto(t, "ListListen511", frame[t])
          /\ UNCHANGED <<lockP2P, crashed>>
  /\ UNCHANGED <<ListenersLocal, ListenersP2P, nilled, Peers, Streams>>

\* lines 511-518: range over the local-bind listeners, Unlock
ListListen511(t) ==
  /\ Running(t, "ListListen511")
  /\ \E order \in RangeOrders(ListenersLocal) :
        Goto(t, "ListListen520", [frame[t] EXCEPT !.out = AppendOutput(@, order)])
  /\ lockLocal' = None
  /\ UNCHANGED <<ListenersLocal, ListenersP2P, lockP2P, nilled, Peers, Streams, crashed>>

\* line 520: s.P2P.ListenersP2P.Lock()
ListListen520(t) ==
  /\ Running(t, "ListListen520")
  /\ IF nilled
     THEN Panic(t)
     ELSE /\ lockP2P = None
          /\ lockP2P' = t
          /\ Goto(t, "ListListen521", frame[t])
          /\ UNCHANGED crashed
  /\ UNCHANGED <<ListenersLocal, ListenersP2P, lockLocal, nilled, Peers, Streams>>

\* lines 521-529: range over the overlay-bind listeners, Unlock, return the
\* list; String() on a nil TargetAddress panics
ListListen521(t) ==
  /\ Running(t, "ListListen521")
  /\ IF EqualPanics(ListenersP2P)
     THEN Panic(t)
     ELSE /\ \E order \in RangeOrders(ListenersP2P) :
                Goto(t, "Random459", [frame[t] EXCEPT !.out = AppendOutput(@, order)])
          /\ lockP2P' = None
          /\ UNCHANGED crashed
  /\ UNCHANGED <<ListenersLocal, ListenersP2P, lockLocal, nilled, Peers, Streams>>

\* lo.Find (lines 459-464): the indexes of the entries with the target
\* address; Find gives the first
Found(list, target) == {i \in 1..Len(list) : list[i].TargetAddress = target}
First(indexes) == CHOOSE i \in indexes : \A j \in indexes : i <= j

\* the pattern of line 469 on a listen address: /ip4/<ip>/tcp/<port>
Matches(listenAddress) ==
  /\ Len(listenAddress) >= 4
  /\ listenAddress[1] = "ip4" /\ listenAddress[3] = "tcp"

\* line 497: Forward is handed targetOpt, "/p2p/" + peerId, as its peer id
ForwardArg(peerId) == "/p2p/" \o peerId

\* lines 459-497: an entry for the peer whose listen address matches the
\* pattern is returned; otherwise a port is drawn and Forward is called
Random459(t) ==
  /\ Running(t, "Random459")
  /\ LET list == frame[t].out
         found == Found(list, TargetOpt(frame[t].arg))
     IN  IF found # {} /\ Matches(list[First(found)].ListenAddress)
         THEN Return(t, "nil",
                     [frame[t] EXCEPT !.ip = list[First(found)].ListenAddress[2],
                                      !.portText = list[First(found)].ListenAddress[4]])
         ELSE \E listenPort \in RandomPorts :
                Goto(t, "Forward254",
                     [EmptyFrame EXCEPT !.op = "Forward", !.proto = "/x/ssh",
                        !.port = listenPort, !.peerId = ForwardArg(frame[t].arg),
                        !.ret = "running", !.outer = TRUE,
                        !.arg = frame[t].arg, !.prev = frame[t].prev,
                        !.held = frame[t].before,
                        !.before = BeforeForward("/x/ssh", listenPort,
                                                 ForwardArg(frame[t].arg))])
  /\ UNCHANGED <<ListenersLocal, ListenersP2P, lockLocal, lockP2P, nilled, Peers, Streams, crashed>>

\* lines 498-503: an error of Forward gives empty strings, its success the
\* ip and the port drawn; the error returned is nil either way
Random498(t) ==
  /\ Running(t, "Random498")
  /\ pc' = [pc EXCEPT ![t] = "idle"]
  /\ frame' = [frame EXCEPT ![t] =
        [EmptyFrame EXCEPT !.op = "ForwardWithRandomPort", !.arg = frame[t].arg,
           !.prev = frame[t].prev, !.trail = frame[t].trail, !.ret = "nil",
           !.before = frame[t].held,
           !.ip = IF frame[t].ret = "nil" THEN "127.0.0.1" ELSE "",
           !.portText = IF frame[t].ret = "nil" THEN ToString(frame[t].port) ELSE ""]]
  /\ UNCHANGED <<ListenersLocal, ListenersP2P, lockLocal, lockP2P, nilled, Peers, Streams, crashed>>

StepRandom(t) ==
    \/ CallForwardWithRandomPort(t) \/ ListListen510(t) \/ ListListen511(t)
    \/ ListListen520(t) \/ ListListen521(t) \/ Random459(t) \/ Random498(t)

\* ---------------------------------------------------------------- streams
\* the forwards that carry connections: a forward of either direction whose
\* target address is set
Carriers ==
  {l \in BagToSet(ListenersLocal) \cup BagToSet(ListenersP2P) : l.target # NilAddr}

\* the id StreamRegistry.Register gives the next stream
NextStreamId == CHOOSE i \in (1..MaxStreams) \ Streams :
                  \A j \in (1..MaxStreams) \ Streams : i <= j

\* a forward accepts a connection while the host is open: its handler
\* registers the stream in c.P2P.Streams
StreamRegister ==
  /\ ~crashed /\ ~nilled
  /\ Carriers # {}
  /\ Cardinality(Streams) < MaxStreams
  /\ Streams' = Streams \cup {NextStreamId}
  /\ UNCHANGED <<ListenersLocal, ListenersP2P, lockLocal, lockP2P, nilled, Peers,
                 pc, frame, crashed>>

\* a connection ends: its stream resets and deregisters itself
StreamReset ==
  /\ ~crashed
  /\ \E s \in Streams : Streams' = Streams \ {s}
  /\ UNCHANGED <<ListenersLocal, ListenersP2P, lockLocal, lockP2P, nilled, Peers,
                 pc, frame, crashed>>

\* ------------------------------------------------------------------- Next
Step(t) ==
    \/ CallList(t) \/ List212(t) \/ List213(t) \/ List222(t) \/ List223(t)
    \/ CallListen(t) \/ Listen242(t) \/ Listen246(t)
    \/ CallForward(t) \/ Forward254(t) \/ Forward267(t) \/ Forward352(t)
    \/ Forward278(t)
    \/ Forward293(t) \/ Forward302(t) \/ Forward401(t) \/ Forward402(t)
    \/ CallClose(t) \/ Close361(t) \/ Close373(t) \/ Close374(t) \/ Close375(t)
    \/ CallDestroy(t) \/ Destroy382(t) \/ Destroy388(t) \/ Destroy389(t)
    \/ Destroy389b(t) \/ Destroy390(t)

\* one caller, every argument
Next == Step(Main)
Spec == Init /\ [][Next]_vars

\* two concurrent callers, colliding arguments
NextConc == \E t \in Threads : Step(t)
SpecConc == Init /\ [][NextConc]_vars

\* one caller, and the connections the forwards carry meanwhile
NextEnv == Step(Main) \/ StreamRegister \/ StreamReset
SpecEnv == Init /\ [][NextEnv]_vars

\* one caller whose steps are all taken in the end, except that Connect
\* returns only if the overlay answers
Progress == \E t \in {Main} : Step(t) /\ pc[t] # "Forward352"
SpecLive == Init /\ [][Next]_vars /\ WF_vars(Progress)

\* one caller that also calls ForwardWithRandomPort
NextRandom == Step(Main) \/ StepRandom(Main)
SpecRandom == Init /\ [][NextRandom]_vars

TypeOK ==
  /\ lockLocal \in Callers \cup {None}
  /\ lockP2P \in Callers \cup {None}
  /\ nilled \in BOOLEAN
  /\ crashed \in BOOLEAN

\* ----------------------------------------------------------------- claims
Done(t, op) == pc[t] = "idle" /\ frame[t].op = op

\* the overlay-bind forwards listen(proto, targetOpt) asks for
RequestedListen(proto, targetOpt) ==
  IF NewMultiaddr(targetOpt).err THEN {}
  ELSE {l \in BagToSet(ListenersP2P) : l = ListenListener(proto, targetOpt)}

FallbackErrors == {"not enough bootstrap peers", "connect failed"}

\* C1 as stated: a forward call that repeats the caller's previous forward
\* call with identical arguments, which registered the forward, returns
\* success whatever its health check reports, and exactly one forward with
\* the requested triple is registered.
C1_Original ==
  \A t \in Callers :
    Done(t, "Forward") /\ frame[t].repeat /\ frame[t].before = "same" =>
      /\ frame[t].ret = "nil"
      /\ Cardinality(Requested(frame[t].proto, frame[t].port, frame[t].peerId)) = 1

\* C1 amended: a forward call that begins while a forward with the identical
\* triple is registered creates nothing and leaves exactly that one forward
\* registered; it returns success from the duplicate check when its health
\* check passed or the circuit fallback connected, and the error of the
\* fallback when both failed.
C1_Idempotent ==
  [][\A t \in Callers :
       frame[t].op = "Forward" /\ frame[t].before = "same" /\ pc[t] # "idle" =>
         /\ ListenersLocal' = ListenersLocal
         /\ Cardinality(Requested(frame[t].proto, frame[t].port, frame[t].peerId)) = 1
         /\ \A l \in Requested(frame[t].proto, frame[t].port, frame[t].peerId) :
               CopiesIn(l, ListenersLocal) = 1
         /\ pc'[t] = "idle" =>
              IF pc[t] = "Forward293" THEN frame'[t].ret = "nil"
              ELSE /\ pc[t] \in {"Forward267", "Forward352"}
                   /\ frame'[t].ret \in FallbackErrors]_vars

C1_Witness ==
  \E t \in Callers :
    /\ Done(t, "Forward") /\ frame[t].before = "same" /\ frame[t].dup
    /\ frame[t].armed /\ frame[t].ret = "nil"

\* C2: in every reachable state no registry holds two forwards with the same
\* (protocol, listenAddress, targetAddress) triple.
C2_Unique ==
  /\ \A l \in BagToSet(ListenersLocal) : CopiesIn(l, ListenersLocal) = 1
  /\ \A l \in BagToSet(ListenersP2P) : CopiesIn(l, ListenersP2P) = 1

\* a second registration of a registered forward was attempted while another
\* call was running
C2_Witness ==
  \E t \in Threads, u \in Threads :
    /\ t # u /\ pc[u] # "idle"
    /\ Done(t, "Listen") /\ frame[t].ret = "listener already registered"
    /\ ListenersLocal # EmptyBag

\* C3: two listen calls with the same protocol and target address that both
\* began while nothing was registered under the protocol leave exactly one
\* overlay-to-local forward under that protocol, the requested one.
C3_OneListener ==
  \A t \in Callers, u \in Callers :
    /\ t # u /\ Done(t, "Listen") /\ Done(u, "Listen")
    /\ frame[t].proto = frame[u].proto /\ frame[t].text = frame[u].text
    /\ frame[t].before = "none" /\ frame[u].before = "none"
    => /\ CopiesIn(ListenListener(frame[t].proto, frame[t].text), ListenersP2P) = 1
       /\ BagCardinality(ListenersP2P) = 1

\* both calls began before either registered: one registered, the other found
\* the protocol taken
C3_Witness ==
  \E t \in Threads, u \in Threads :
    /\ t # u /\ Done(t, "Listen") /\ Done(u, "Listen")
    /\ frame[t].proto = frame[u].proto /\ frame[t].text = frame[u].text
    /\ frame[t].before = "none" /\ frame[u].before = "none"
    /\ frame[t].ret = "nil" /\ frame[u].ret = "listener already registered"

\* C4 as stated: a listen call for a triple that is registered when the call
\* begins returns success and leaves the forward registered once.
C4_Original ==
  \A t \in Callers :
    Done(t, "Listen") /\ frame[t].before = "same" =>
      /\ frame[t].ret = "nil"
      /\ CopiesIn(ListenListener(frame[t].proto, frame[t].text), ListenersP2P) = 1

\* C5 as stated: close(addr) removes from the local-bind registry and then
\* from the overlay-bind registry exactly the forwards whose target is addr,
\* returns the number removed, and returns 0 when it repeats the previous
\* close.
C5_Original ==
  [][\A t \in Callers :
       /\ pc[t] = "Close373" =>
            /\ BagToSet(ListenersLocal') =
                 {l \in BagToSet(ListenersLocal) :
                    l.target # NewMultiaddr(frame[t].text).addr}
            /\ frame'[t].done = BagCardinality(ListenersLocal)
                                  - BagCardinality(ListenersLocal')
       /\ pc[t] = "Close375" =>
            /\ pc'[t] = "idle" /\ frame'[t].ret = "nil"
            /\ BagToSet(ListenersP2P') =
                 {l \in BagToSet(ListenersP2P) :
                    l.target # NewMultiaddr(frame[t].text).addr}
            /\ frame'[t].done = frame[t].done + BagCardinality(ListenersP2P)
                                  - BagCardinality(ListenersP2P')
            /\ frame[t].repeat => frame'[t].done = 0]_vars

\* C6: forward with an empty peer id returns the EmptyPeerID error in its
\* first step, before the health check and the fallback, and changes no
\* registry.
C6_EmptyPeerID ==
  [][\A t \in Callers :
       frame[t].op = "Forward" /\ frame[t].peerId = "" /\ pc[t] # "idle" =>
         /\ pc[t] = "Forward254" /\ pc'[t] = "idle"
         /\ frame'[t].ret = "peer id cannot be empty"
         /\ ~frame'[t].armed
         /\ ListenersLocal' = ListenersLocal
         /\ ListenersP2P' = ListenersP2P]_vars

C6_Witness ==
  \E t \in Callers :
    /\ Done(t, "Forward") /\ frame[t].peerId = ""
    /\ frame[t].ret = "peer id cannot be empty"
    /\ ListenersLocal # EmptyBag

\* C7 as stated: when the health check failed and the fallback does not
\* establish a circuit, forward returns an error and creates no forward.
C7_Original ==
  [][\A t \in Callers :
       pc[t] \in {"Forward267", "Forward352"}
         /\ pc'[t] \notin {"Forward352", "Forward278"} =>
         /\ pc'[t] = "idle"
         /\ frame'[t].ret \in FallbackErrors
         /\ ListenersLocal' = ListenersLocal]_vars

\* C8 as stated: a call that runs after destroy has returned ends with the
\* ClientClosed error.
C8_Original ==
  [][\A t \in Callers :
       nilled /\ pc[t] # "idle" /\ pc'[t] \in {"idle", "crashed"} =>
         pc'[t] = "idle" /\ frame'[t].ret = "client closed"]_vars

\* C9 as stated: a list call on a live client, with no other call running,
\* returns the local-bind forwards and then the overlay-bind forwards, each
\* as its triple.
C9_Original ==
  \A t \in Callers :
    frame[t].op = "List" /\ pc[t] \in {"idle", "crashed"} /\ ~nilled =>
      /\ frame[t].ret = "nil"
      /\ \E a \in RangeOrders(ListenersLocal), b \in RangeOrders(ListenersP2P) :
            frame[t].out = AppendOutput(AppendOutput(<<>>, a), b)

\* C10 as stated: when forward, or listen with a well-formed target address,
\* returns success, a forward with the requested protocol, listen address
\* and target address is registered.
C10_Original ==
  [][\A t \in Callers :
       pc[t] # "idle" /\ pc'[t] = "idle" /\ frame'[t].ret = "nil" =>
         /\ frame[t].op = "Forward" =>
              Requested(frame[t].proto, frame[t].port, frame[t].peerId)' # {}
         /\ frame[t].op = "Listen" /\ ~NewMultiaddr(frame[t].text).err =>
              RequestedListen(frame[t].proto, frame[t].text)' # {}]_vars

\* the step of a listen or forward call that ends the call fails: the target
\* of listen does not parse or its registration is refused; forward ends
\* anywhere but in the duplicate lookup or in an accepted registration
FailingStep(t) ==
  /\ pc[t] # "idle" /\ pc'[t] \in {"idle", "crashed"}
  /\ \/ /\ frame[t].op = "Listen"
        /\ \/ NewMultiaddr(frame[t].text).err
           \/ Register(ListenersP2P, ListenListener(frame[t].proto, frame[t].text)).err # "nil"
     \/ /\ frame[t].op = "Forward"
        /\ pc[t] # "Forward293"
        /\ ~(pc[t] = "Forward402"
               /\ Register(ListenersLocal,
                           localListener(frame[t].proto, frame[t].laddr,
                                         frame[t].peerId)).err = "nil")

\* C11 as stated: a listen or forward call on a live client that ends in a
\* failing step returns an error, and that step leaves both registries as
\* they were.
C11_Original ==
  [][\A t \in Callers :
       ~nilled /\ FailingStep(t) =>
         /\ pc'[t] = "idle"
         /\ frame'[t].ret \notin {"nil", "panic", "fatal"}
         /\ ListenersLocal' = ListenersLocal
         /\ ListenersP2P' = ListenersP2P]_vars

\* C12 as stated: destroy closes every stream before it closes the forwards,
\* closes the forwards of both directions before it shuts the host down, and
\* when it has returned no stream is open and both registries are empty.
C12_Original ==
  \A t \in Callers :
    frame[t].op = "Destroy" =>
      /\ pc[t] \in {"Destroy388", "Destroy389", "Destroy389b", "Destroy390"} =>
           Streams = {}
      /\ pc[t] = "Destroy390" =>
           ListenersLocal = EmptyBag /\ ListenersP2P = EmptyBag
      /\ pc[t] = "idle" /\ frame[t].ret = "nil" =>
           Streams = {} /\ ListenersLocal = EmptyBag /\ ListenersP2P = EmptyBag

\* C13 as stated: every call that has begun ends, by a return or with the
\* process, also when the overlay never answers.
C13_Original ==
  \A t \in Callers : (pc[t] # "idle") ~> (pc[t] \in {"idle", "crashed"})

\* how often a step occurs in the trail of a call, and where it occurs first
Count(trail, step) == Cardinality({i \in 1..Len(trail) : trail[i] = step})
Before(trail, a, b) ==
  \A j \in 1..Len(trail) : trail[j] = b => \E i \in 1..(j - 1) : trail[i] = a

\* C14: a forward call makes at most one health check and at most one relay
\* connect attempt; it enters the fallback only after its own health check
\* returned an error, and a call whose health check passed returns every
\* error without a fallback.
C14_OneFallback ==
  \A t \in Callers :
    frame[t].op = "Forward" =>
      /\ Count(frame[t].trail, "health") <= 1
      /\ Count(frame[t].trail, "fallback") <= 1
      /\ Count(frame[t].trail, "connect") <= 1
      /\ Before(frame[t].trail, "health", "fallback")
      /\ Before(frame[t].trail, "fallback", "connect")
      /\ Count(frame[t].trail, "fallback") = 1 => frame[t].health = "fail"
      /\ frame[t].health # "fail" => frame[t].ret \notin FallbackErrors

\* a call whose health check failed connected through the relay and went on
\* to register its forward
C14_Witness ==
  \E t \in Callers :
    /\ Done(t, "Forward") /\ frame[t].health = "fail" /\ frame[t].ret = "nil"
    /\ Count(frame[t].trail, "connect") = 1 /\ ~frame[t].dup
    /\ Requested(frame[t].proto, frame[t].port, frame[t].peerId) # {}

\* the trail runs through the steps in the given order
InOrder(trail, order) ==
  \A i \in 1..Len(trail), j \in 1..Len(trail) :
    i < j => \E a \in 1..Len(order), b \in 1..Len(order) :
               a < b /\ order[a] = trail[i] /\ order[b] = trail[j]

\* a forward call may create: its health check passed or its fallback
\* connected, and its duplicate lookup found nothing
MayCreate(t) ==
  /\ \/ frame[t].health = "ok"
     \/ frame[t].health = "fail" /\ Count(frame[t].trail, "connect") = 1
  /\ Count(frame[t].trail, "lookup") = 1
  /\ ~frame[t].dup

\* C15 as stated: forward validates the peer id, checks health, falls back,
\* looks for a duplicate, resolves the target and creates, in this order,
\* and creates only when it may.
C15_Original ==
  \A t \in Callers :
    frame[t].op = "Forward" =>
      /\ InOrder(frame[t].trail,
                 <<"validate", "health", "fallback", "connect", "lookup", "resolve", "create">>)
      /\ Count(frame[t].trail, "create") = 1 => MayCreate(t)

\* C15 amended: forward validates the peer id, checks health, falls back,
\* resolves the target, looks for a duplicate and creates, in this order; it
\* goes on to create only when its health check passed or its fallback
\* connected and no forward with the requested triple is registered, and
\* only such a call adds a forward to the local-bind registry.
C15_Order ==
  [][/\ \A t \in Callers :
          /\ frame'[t].op = "Forward" =>
               InOrder(frame'[t].trail,
                       <<"validate", "health", "fallback", "connect", "resolve", "lookup", "create">>)
          /\ frame[t].op = "Forward" /\ pc[t] = "Forward293" /\ pc'[t] = "Forward302" =>
               /\ Requested(frame[t].proto, frame[t].port, frame[t].peerId) = {}
               /\ MayCreate(t)'
     /\ BagToSet(ListenersLocal') \ BagToSet(ListenersLocal) # {} =>
          \E t \in Callers :
            /\ pc[t] = "Forward402" /\ pc'[t] = "idle" /\ MayCreate(t)
            /\ Count(frame[t].trail, "create") = 1]_vars

\* a forward was registered by a call whose health check failed and whose
\* fallback connected
C15_Witness ==
  \E t \in Callers :
    /\ Done(t, "Forward") /\ frame[t].ret = "nil"
    /\ frame[t].trail = <<"validate", "health", "fallback", "connect", "resolve", "lookup", "create">>
    /\ Requested(frame[t].proto, frame[t].port, frame[t].peerId) # {}

\* C16 as stated: no caller holds the local-bind lock and the overlay-bind
\* lock at the same time.
C16_Original ==
  \A t \in Callers : ~(lockLocal = t /\ lockP2P = t)

\* C17 as stated: a caller about to scan a registry holds the lock of that
\* registry, and no scan of the local-bind registry runs while another
\* caller writes it.
C17_Original ==
  \A t \in Callers :
    /\ pc[t] \in {"List213", "Forward293", "Close373", "Destroy389b"} => lockLocal = t
    /\ pc[t] \in {"List223", "Close375", "Destroy388"} => lockP2P = t
    /\ pc[t] = "Forward293" => LocalWriters \ {t} = {}

\* C18: the health check of a forward call returns success exactly when its
\* probe stream opened; when it returns, the probe stream is not open and
\* the streams the client keeps are the ones it kept before.
C18_Probe ==
  [][\A t \in Callers :
       /\ pc[t] = "Forward254" /\ ~EmptyPeerID(frame[t].peerId)
       /\ pc'[t] \in {"Forward278", "Forward267"}
       => /\ (pc'[t] = "Forward278") <=> (frame'[t].probe # "none")
          /\ (pc'[t] = "Forward267") <=> (frame'[t].health = "fail")
          /\ frame'[t].probe # "open"
          /\ Streams' = Streams]_vars

\* a health check passed, its probe closed, while a stream of a forward
\* stayed open
C18_Witness ==
  \E t \in Callers :
    /\ pc[t] = "Forward278" /\ frame[t].health = "ok" /\ frame[t].probe = "closed"
    /\ Streams # {}

\* the lock a caller is about to take, and waits for while another holds it
WaitsLocal(t) == pc[t] \in {"List212", "Close361", "Destroy389", "Forward401"}
WaitsP2P(t) == pc[t] \in {"List222", "Listen242", "Forward278", "Close374", "Destroy382"}

\* C19: while the process runs, no two callers wait for each other's registry
\* lock; a caller that holds the local-bind lock never waits for the
\* overlay-bind lock, and the only caller that holds both is a forward call
\* that took the overlay-bind lock first and is about to register.
C19_NoDeadlock ==
  ~crashed =>
    /\ \A t \in Callers, u \in Callers :
         ~(/\ t # u
           /\ lockP2P = t /\ WaitsLocal(t)
           /\ lockLocal = u /\ WaitsP2P(u))
    /\ \A u \in Callers : lockLocal = u => ~WaitsP2P(u) /\ ~WaitsLocal(u) /\ pc[u] # "idle"
    /\ \A t \in Callers : lockP2P = t => ~WaitsP2P(t) /\ pc[t] # "idle"
    /\ \A t \in Callers :
         lockLocal = t /\ lockP2P = t => pc[t] = "Forward402" /\ frame[t].op = "Forward"
    /\ \A t \in Callers : lockP2P = t /\ WaitsLocal(t) => pc[t] = "Forward401"

\* a forward call inside the overlay-bind lock waits for the local-bind lock
\* that another caller holds
C19_Witness ==
  \E t \in Callers, u \in Callers :
    /\ t # u /\ ~crashed
    /\ pc[t] = "Forward401" /\ lockP2P = t
    /\ lockLocal = u

\* the local-bind forwards of a protocol to a peer, whatever their port
ForwardsTo(protoOpt, peerId) ==
  {l \in BagToSet(ListenersLocal) : l.proto = protoOpt /\ l.target = P2pAddr(peerId)}

\* two callers have each returned from forward with the same arguments, the
\* health check passed in both, and no bind failed for a cause outside the
\* process
SameForwards(t, u) ==
  /\ t # u /\ Done(t, "Forward") /\ Done(u, "Forward")
  /\ frame[t].proto = frame[u].proto /\ frame[t].port = frame[u].port
  /\ frame[t].peerId = frame[u].peerId
  /\ frame[t].health = "ok" /\ frame[u].health = "ok"
  /\ ~(frame[t].ret = "bind failed" /\ ~frame[t].busy)
  /\ ~(frame[u].ret = "bind failed" /\ ~frame[u].busy)

\* the part of forward inside the overlay-bind lock: lookup and registration
InForwardSection(t) == pc[t] \in {"Forward293", "Forward302", "Forward401", "Forward402"}

Returned21(t) ==
  {l \in BagToSet(ListenersLocal) \cup BagToSet(ListenersP2P) :
     /\ l.target = P2pAddr(frame[t].arg)
     /\ l.listen # NilAddr
     /\ String(l.listen) = <<"ip4", frame[t].ip, "tcp", frame[t].portText>>}

\* C21 as stated: when ForwardWithRandomPort has returned an ip and a port, a
\* forward listening there for the peer is registered; a call that began
\* with a forward for the peer registered created none, and a call that
\* repeats the previous one returns the port that one returned.
C21_Original ==
  \A t \in Callers :
    Done(t, "ForwardWithRandomPort") /\ frame[t].ip # "" /\ frame[t].portText # "" =>
      /\ Returned21(t) # {}
      /\ frame[t].before = "same" => frame[t].trail = <<>>
      /\ frame[t].prev # "" => frame[t].portText = frame[t].prev

====
